---- MODULE Spec2Model ----
(***************************************************************************)
(* Model of testcases/testcase1/models/parse_wrapped.py: classification of *)
(* the variables of a DAE XML dump, extraction of the Read/Overwrite       *)
(* records and of the KPI signal groups, and synthesis of the wrapper      *)
(* Modelica model.                                                         *)
(*                                                                         *)
(* A Python str is a sequence of atoms (TLA+ strings).  The atoms the code *)
(* inspects one by one, the dot and the double quote, are atoms of their   *)
(* own; every other atom stands for a run of characters holding neither.   *)
(***************************************************************************)
EXTENDS Integers, Sequences, FiniteSets, TLC

VARIABLES tree, pc, idx, instances, signals, aliasVar, sigType, depth,
          wrapper_code, stdout, outfile, jsonfile, exc

vars == <<tree, pc, idx, instances, signals, aliasVar, sigType, depth,
          wrapper_code, stdout, outfile, jsonfile, exc>>

(***************************************************************************)
(* Bounds of the model.                                                    *)
(***************************************************************************)
\* Most marked variables of a tree drawn in Init.
MaxVars == 4
\* Depth at which the interpreter gives up a recursion (RecursionError).
RecursionLimit == 5
\* Most entries of an instance map drawn in InitWrapper.
MaxEntries == 2

(***************************************************************************)
(* Program constants.                                                      *)
(***************************************************************************)
READ == 0
OVERWRITE == 1
KPI == 2

\* Python's None (its str() is 'None').
None == <<"None">>
\* A child element or attribute the node does not have.
Absent == <<"<absent>">>
\* A name not yet bound.
Unset == <<"<unset>">>
\* The state of a file the invocation has not opened.
NotOpened == <<"not opened">>
\* No exception is propagating.
NoExc == "none"

DOT == "."
QUOTE == "\""

(***************************************************************************)
(* str methods.                                                            *)
(***************************************************************************)
\* sub in s
Contains(s, sub) ==
    \E k \in 1..(Len(s) - Len(sub) + 1) : SubSeq(s, k, k + Len(sub) - 1) = sub

\* Index of the first occurrence of the atom sep in s (0 if there is none).
IndexOf(s, sep) ==
    IF \E k \in 1..Len(s) : s[k] = sep
    THEN CHOOSE k \in 1..Len(s) : s[k] = sep /\ \A j \in 1..(k - 1) : s[j] # sep
    ELSE 0

\* s.split(sep): the list of the pieces of s between the occurrences of sep.
RECURSIVE Split(_, _)
Split(s, sep) ==
    LET k == IndexOf(s, sep)
    IN  IF k = 0 THEN <<s>>
        ELSE <<SubSeq(s, 1, k - 1)>> \o Split(SubSeq(s, k + 1, Len(s)), sep)

\* sep.join(parts)
RECURSIVE Join(_, _)
Join(parts, sep) ==
    IF Len(parts) = 0 THEN <<>>
    ELSE IF Len(parts) = 1 THEN parts[1]
    ELSE parts[1] \o <<sep>> \o Join(Tail(parts), sep)

\* s.replace(from, to)
Replace(s, from, to) == [k \in 1..Len(s) |-> IF s[k] = from THEN to ELSE s[k]]

\* ''.join(list)
RECURSIVE Concat(_)
Concat(list) == IF Len(list) = 0 THEN <<>> ELSE Head(list) \o Concat(Tail(list))

\* '.'.join(instance.split('.')[:-1])
Basename(instance) ==
    LET parts == Split(instance, DOT)
    IN  Join(SubSeq(parts, 1, Len(parts) - 1), DOT)

\* s.split('.')[-1]
LastSegment(s) == LET parts == Split(s, DOT) IN parts[Len(parts)]

(***************************************************************************)
(* float(s): the model reads the decimal numerals without sign, point or   *)
(* exponent; every other string of the model's inputs is one float()       *)
(* rejects with ValueError.                                                *)
(***************************************************************************)
Digits == {"0", "1", "2", "3", "4", "5", "6", "7", "8", "9"}

DigitVal(d) ==
    CASE d = "0" -> 0 [] d = "1" -> 1 [] d = "2" -> 2 [] d = "3" -> 3
      [] d = "4" -> 4 [] d = "5" -> 5 [] d = "6" -> 6 [] d = "7" -> 7
      [] d = "8" -> 8 [] d = "9" -> 9

IsFloat(s) == Len(s) > 0 /\ \A k \in 1..Len(s) : s[k] \in Digits

RECURSIVE NumeralValue(_)
NumeralValue(s) ==
    IF Len(s) = 0 THEN 0
    ELSE 10 * NumeralValue(SubSeq(s, 1, Len(s) - 1)) + DigitVal(s[Len(s)])

\* A float object holding the whole number n (kept apart from None and str).
Float(n) == <<"float", ToString(n)>>

IsFloatObject(x) == Len(x) = 2 /\ x[1] = "float"

\* float(s), for a string IsFloat accepts.
FloatOf(s) == Float(NumeralValue(s))

\* '{0}'.format(x): repr of a float holding a whole number, or 'None'.
FormatFloat(x) == IF IsFloatObject(x) THEN <<x[2], DOT, "0">> ELSE x

(***************************************************************************)
(* The tree: the elements carrying a name attribute, in document order.    *)
(* A node is [tag, name, bind, unit, minValue, maxValue]; bind is the      *)
(* string of its bindExpression child, unit, minValue and maxValue those   *)
(* of the children of its attributesValues child, Absent when missing.     *)
(***************************************************************************)
Node(tag, name, bind, unit, mn, mx) ==
    [tag |-> tag, name |-> name, bind |-> bind, unit |-> unit,
     minValue |-> mn, maxValue |-> mx]

\* list(tree.iter("variable"))
Variables(t) == SelectSeq(t, LAMBDA n : n.tag = "variable")

\* next(filter(lambda x: x.attrib.get("name", "") == name, tree.getroot().iter())):
\* the index of the first node of that name, 0 when next() raises StopIteration.
FindNode(t, name) ==
    IF \E k \in 1..Len(t) : t[k].name = name
    THEN CHOOSE k \in 1..Len(t) :
            t[k].name = name /\ \A j \in 1..(k - 1) : t[j].name # name
    ELSE 0

(***************************************************************************)
(* dict, insertion-ordered: a sequence of [key, val] with distinct keys.   *)
(***************************************************************************)
DictKeys(d) == [k \in 1..Len(d) |-> d[k].key]

DictHas(d, key) == \E k \in 1..Len(d) : d[k].key = key

DictGet(d, key) == d[CHOOSE k \in 1..Len(d) : d[k].key = key].val

\* Variant of DictSet: the entry always goes last, a present key or not.
DictSetAppend(d, key, val) == Append(d, [key |-> key, val |-> val])

\* d[key] = val: a present key keeps its place, a new key goes last.
DictSet(d, key, val) ==
    IF DictHas(d, key)
    THEN [k \in 1..Len(d) |-> IF d[k].key = key THEN [key |-> key, val |-> val] ELSE d[k]]
    ELSE Append(d, [key |-> key, val |-> val])

(***************************************************************************)
(* _make_var_name                                                          *)
(***************************************************************************)
MakeVarName(block, style, description, attribute) ==
    LET name == Replace(block, DOT, "_")
        descr == IF description = <<>> THEN <<>>
                 ELSE <<" ", QUOTE>> \o description \o <<QUOTE>>
    IN  CASE style = "input_signal" -> name \o <<"_u">> \o attribute \o descr
          [] style = "input_activate" -> name \o <<"_activate">> \o descr
          [] style = "output" -> name \o <<"_y">> \o attribute \o descr

(***************************************************************************)
(* _process_readwrite: the exception it raises (NoExc if none) and the     *)
(* instances it leaves.                                                    *)
(***************************************************************************)
\* Variant of Label: the two labels are swapped.
LabelSwapped(flag) == IF flag = READ THEN "Overwrite" ELSE "Read"

Label(flag) == IF flag = READ THEN "Read" ELSE "Overwrite"

SignalSuffix(flag) == IF flag = READ THEN "y" ELSE "u"

\* Variant of QuotedPart: the piece before the first double quote.
QuotedPartFirst(s) == Split(s, QUOTE)[1]

\* s.split('"')[1], for a string with a double quote (IndexError without).
QuotedPart(s) == Split(s, QUOTE)[2]

InsertRecord(inst, label, basename, rec) ==
    [inst EXCEPT ![label] = DictSet(inst[label], basename, rec)]

\* Lines 136-151: the exception raised (NoExc if none) and the record read.
ExtractRecord(t, instance, flag) ==
    LET basename == Basename(instance)
        n == FindNode(t, basename \o <<DOT, SignalSuffix(flag)>>)
        d == FindNode(t, basename \o <<DOT, "description">>)
        Fail(e) == [exc |-> e, rec |-> None]
    IN  IF n = 0 THEN Fail("StopIteration")
        ELSE IF t[n].unit = Absent THEN Fail("AttributeError")
        ELSE IF ~Contains(t[n].unit, <<QUOTE>>) THEN Fail("IndexError")
        ELSE IF d = 0 THEN Fail("StopIteration")
        ELSE IF t[d].bind = Absent THEN Fail("AttributeError")
        ELSE IF ~Contains(t[d].bind, <<QUOTE>>) THEN Fail("IndexError")
        ELSE IF flag = READ
        THEN [exc |-> NoExc,
              rec |-> [Unit |-> QuotedPart(t[n].unit),
                       Description |-> QuotedPart(t[d].bind),
                       Minimum |-> None, Maximum |-> None]]
        ELSE IF t[n].minValue = Absent THEN Fail("AttributeError")
        ELSE IF ~IsFloat(t[n].minValue) THEN Fail("ValueError")
        ELSE IF t[n].maxValue = Absent THEN Fail("AttributeError")
        ELSE IF ~IsFloat(t[n].maxValue) THEN Fail("ValueError")
        ELSE [exc |-> NoExc,
              rec |-> [Unit |-> QuotedPart(t[n].unit),
                       Description |-> QuotedPart(t[d].bind),
                       Minimum |-> FloatOf(t[n].minValue),
                       Maximum |-> FloatOf(t[n].maxValue)]]

\* Variant of ProcessReadwrite: the entry is made before the record is read.
ProcessReadwriteEntryFirst(t, instance, inst, flag) ==
    LET r == ExtractRecord(t, instance, flag)
        early == InsertRecord(inst, Label(flag), Basename(instance), None)
    IN  IF r.exc = NoExc
        THEN [exc |-> NoExc,
              instances |-> InsertRecord(inst, Label(flag), Basename(instance), r.rec)]
        ELSE [exc |-> r.exc, instances |-> early]

\* The whole of _process_readwrite: the entry is made last, at line 152.
ProcessReadwrite(t, instance, inst, flag) ==
    LET r == ExtractRecord(t, instance, flag)
    IN  IF r.exc = NoExc
        THEN [exc |-> NoExc,
              instances |-> InsertRecord(inst, Label(flag), Basename(instance), r.rec)]
        ELSE [exc |-> r.exc, instances |-> inst]

(***************************************************************************)
(* create_wrapper: None, or the text of the wrapper model.                 *)
(***************************************************************************)
InputAttribute(rec) ==
    <<"(unit=", QUOTE>> \o rec.Unit \o <<QUOTE, ", min=">>
        \o FormatFloat(rec.Minimum) \o <<", max=">> \o FormatFloat(rec.Maximum)
        \o <<")">>

OutputAttribute(rec) == <<"(unit=", QUOTE>> \o rec.Unit \o <<QUOTE, ")">>

\* The two fragments appended for one Overwrite block (lines 86-96).
InputFragments(e) ==
    << <<"\tModelica.Blocks.Interfaces.RealInput ">>
           \o MakeVarName(e.key, "input_signal", e.val.Description, InputAttribute(e.val))
           \o <<";\n">>,
       <<"\tModelica.Blocks.Interfaces.BooleanInput ">>
           \o MakeVarName(e.key, "input_activate",
                          <<"Activation for ">> \o e.val.Description, <<>>)
           \o <<";\n">> >>

\* The fragment appended for one Read or Overwrite block (line 102).
OutputFragment(e) ==
    <<"\tModelica.Blocks.Interfaces.RealOutput ">>
        \o MakeVarName(e.key, "output", <<>>, OutputAttribute(e.val))
        \o <<" = mod.">> \o e.key \o <<".y ", QUOTE>> \o e.val.Description
        \o <<QUOTE, ";\n">>

\* Variant of BindingFragments: the instantiation is closed after the first
\* clause instead of the last.
BindingFragmentsCloseFirst(e, i, n) ==
    << <<"\t\t">> \o e.key \o <<"(uExt(y=">>
           \o MakeVarName(e.key, "input_signal", <<>>, <<>>)
           \o <<"),activate(y=">>
           \o MakeVarName(e.key, "input_activate", <<>>, <<>>) \o <<"))">>,
       IF i = 1 THEN <<") ", QUOTE, "Original model with overwrites", QUOTE, ";\n">>
       ELSE <<",\n">> >>

\* The fragments appended for the i-th Overwrite block of n (lines 108-113).
BindingFragments(e, i, n) ==
    << <<"\t\t">> \o e.key \o <<"(uExt(y=">>
           \o MakeVarName(e.key, "input_signal", <<>>, <<>>)
           \o <<"),activate(y=">>
           \o MakeVarName(e.key, "input_activate", <<>>, <<>>) \o <<"))">>,
       IF i = n THEN <<") ", QUOTE, "Original model with overwrites", QUOTE, ";\n">>
       ELSE <<",\n">> >>

ModelCode(model_path, inst) ==
    LET ow == inst["Overwrite"]
        rd == inst["Read"]
    IN  << <<"model ", "wrapped", " ", QUOTE, "Wrapped model of ">> \o model_path
               \o <<QUOTE, "\n\t// Input overwrite\n">> >>
        \o Concat([k \in 1..Len(ow) |-> InputFragments(ow[k])])
        \o << <<"\t// Out read\n">> >>
        \o [k \in 1..Len(rd) |-> OutputFragment(rd[k])]
        \o [k \in 1..Len(ow) |-> OutputFragment(ow[k])]
        \o << <<"\t// Original model\n">>, <<"\t">> \o model_path \o <<" mod(\n">> >>
        \o (IF Len(ow) # 0
            THEN Concat([k \in 1..Len(ow) |-> BindingFragments(ow[k], k, Len(ow))])
            ELSE << <<") ", QUOTE, "Original model without overwrites", QUOTE, ";\n">> >>)
        \o << <<"end ", "wrapped", ";\n">> >>

CreateWrapperResult(model_path, inst) ==
    IF Len(inst["Overwrite"]) + Len(inst["Read"]) = 0 THEN None
    ELSE Concat(ModelCode(model_path, inst))

(***************************************************************************)
(* parse_XML: the classification of one variable name (lines 35-42).       *)
(***************************************************************************)
NoFlag == 3

\* Variant of Classify: the Overwrite marker is tested before the Read marker.
ClassifyOverwriteFirst(name) ==
    IF Contains(name, <<"boptestOverwrite">>) THEN OVERWRITE
    ELSE IF Contains(name, <<"boptestRead">>) THEN READ
    ELSE IF Contains(name, <<"KPIs">>) THEN KPI
    ELSE NoFlag

Classify(name) ==
    IF Contains(name, <<"boptestRead">>) THEN READ
    ELSE IF Contains(name, <<"boptestOverwrite">>) THEN OVERWRITE
    ELSE IF Contains(name, <<"KPIs">>) THEN KPI
    ELSE NoFlag

(***************************************************************************)
(* _process_KPI                                                            *)
(***************************************************************************)
ZoneSignalTypes ==
    { <<"AirZoneTemperature">>, <<"RadiativeZoneTemperature">>,
      <<"OperativeZoneTemperature">>, <<"RelativeHumidity">>,
      <<"CO2Concentration">> }

\* Variant of ZoneKey: the zone is left out of the key.
ZoneKeyBare(signal_type, zone) == signal_type

\* '{0}[{1}]'.format(signal_type, zone)
ZoneKey(signal_type, zone) == signal_type \o <<"[">> \o zone \o <<"]">>

\* Variant of AddSignal: the identifier goes first in the list of its key.
AddSignalFirst(sig, signal_type, basename) ==
    LET id == MakeVarName(basename, "output", <<>>, <<>>)
    IN  IF DictHas(sig, signal_type)
        THEN DictSet(sig, signal_type, <<id>> \o DictGet(sig, signal_type))
        ELSE DictSet(sig, signal_type, <<id>>)

\* Lines 130-133: the identifier of basename goes last in the list of its key.
AddSignal(sig, signal_type, basename) ==
    LET id == MakeVarName(basename, "output", <<>>, <<>>)
    IN  IF DictHas(sig, signal_type)
        THEN DictSet(sig, signal_type, Append(DictGet(sig, signal_type), id))
        ELSE DictSet(sig, signal_type, <<id>>)

(***************************************************************************)
(* The inputs: a tree is at most MaxVars marked variables, followed by the *)
(* signal, description and zone nodes of their blocks.                     *)
(***************************************************************************)
Name(base, last) == <<base, DOT>> \o last

Str(s) == <<QUOTE, s, QUOTE>>

Var(name, bind) == Node("variable", name, bind, Absent, Absent, Absent)

Sig(name, unit, mn, mx) == Node("variable", name, Absent, unit, mn, mx)

\* The variables of a block a that carry a marker: a Read and an Overwrite
\* role, two names holding two markers each, and a KPI.
ReadWriteVars ==
    { Var(Name("a", <<"boptestRead">>), Absent),
      Var(Name("a", <<"boptestOverwrite">>), Absent),
      Var(Name("a", <<"boptestOverwrite", "boptestRead">>), Absent),
      Var(Name("a", <<"KPIs", "boptestOverwrite">>), <<"S", DOT, "AirZoneTemperature">>),
      Var(Name("a", <<"KPIs">>), <<"S", DOT, "AirZoneTemperature">>) }

\* The other variables of block a: each list is no node or one node.
OutputNodes ==
    { <<>>,
      << Sig(Name("a", <<"y">>), Str("K"), Absent, Absent) >>,
      << Sig(Name("a", <<"y">>), <<QUOTE, QUOTE>>, Absent, Absent) >> }

InputNodes ==
    { <<>>,
      << Sig(Name("a", <<"u">>), Str("K"), <<"1">>, <<"2", "0">>) >>,
      << Sig(Name("a", <<"u">>), Str("W"), <<"x">>, <<"2", "0">>) >> }

DescriptionNodes ==
    { <<>>,
      << Var(Name("a", <<"description">>), Str("d")) >>,
      << Var(Name("a", <<"description">>), <<"d">>) >> }

\* The KPI variables of blocks a and b, and a Read variable.
KPIVars ==
    { Var(Name("a", <<"KPIs">>), <<"S", DOT, "AirZoneTemperature">>),
      Var(Name("b", <<"KPIs">>), <<"S", DOT, "AirZoneTemperature">>),
      Var(Name("a", <<"KPIs">>), <<"S", DOT, "Power">>),
      Var(Name("b", <<"KPIs">>), <<"S", DOT, "Power">>),
      Var(Name("a", <<"boptestRead">>), Absent) }

\* The zone of a: missing, a literal, or an alias of the zone of b.
ZoneANodes ==
    { <<>>,
      << Var(Name("a", <<"zone">>), Str("Z")) >>,
      << Var(Name("a", <<"zone">>), Name("b", <<"zone">>)) >> }

\* The zone of b: missing, a literal, or an alias of the zone of a.
ZoneBNodes ==
    { <<>>,
      << Var(Name("b", <<"zone">>), Str("Z")) >>,
      << Var(Name("b", <<"zone">>), Str("Y")) >>,
      << Var(Name("b", <<"zone">>), Name("a", <<"zone">>)) >> }

\* The sequences of at most n elements of pool.
Seqs(pool, n) == UNION { [1..k -> pool] : k \in 0..n }

(***************************************************************************)
(* The invocation, lines 197-208.                                          *)
(***************************************************************************)
InitRun ==
    /\ pc = "parse"
    /\ idx = 1
    /\ instances = [Overwrite |-> <<>>, Read |-> <<>>]
    /\ signals = <<>>
    /\ aliasVar = <<>>
    /\ sigType = <<>>
    /\ depth = 0
    /\ wrapper_code = Unset
    /\ stdout = <<>>
    /\ outfile = NotOpened
    /\ jsonfile = NotOpened
    /\ exc = NoExc

Init ==
    /\ \E vs \in Seqs(ReadWriteVars, MaxVars), y \in OutputNodes, u \in InputNodes,
          d \in DescriptionNodes : tree = vs \o y \o u \o d
    /\ InitRun

AtVariable ==
    /\ pc = "parse"
    /\ idx <= Len(Variables(tree))

CurVar == Variables(tree)[idx]

Propagate(e) ==
    /\ exc' = e
    /\ pc' = "raised"

\* Lines 43-44: a variable of no role is passed over.
Skip ==
    /\ AtVariable
    /\ Classify(CurVar.name) = NoFlag
    /\ idx' = idx + 1
    /\ UNCHANGED <<tree, pc, instances, signals, aliasVar, sigType, depth,
                   wrapper_code, stdout, outfile, jsonfile, exc>>

\* Lines 47-48: _process_readwrite on a Read or Overwrite variable.
VisitReadwrite ==
    /\ AtVariable
    /\ Classify(CurVar.name) \in {READ, OVERWRITE}
    /\ LET r == ProcessReadwrite(tree, CurVar.name, instances, Classify(CurVar.name))
       IN  /\ instances' = r.instances
           /\ IF r.exc = NoExc
              THEN idx' = idx + 1 /\ UNCHANGED <<pc, exc>>
              ELSE Propagate(r.exc) /\ UNCHANGED idx
    /\ UNCHANGED <<tree, signals, aliasVar, sigType, depth,
                   wrapper_code, stdout, outfile, jsonfile>>

\* Lines 45-46 and 122-133: _process_KPI up to its call of _get_final_value,
\* or to its end when the signal type has no zone.
VisitKPI ==
    /\ AtVariable
    /\ Classify(CurVar.name) = KPI
    /\ IF CurVar.bind = Absent
       THEN /\ Propagate("AttributeError")
            /\ UNCHANGED <<idx, signals, aliasVar, sigType, depth>>
       ELSE LET signal_type == LastSegment(CurVar.bind)
                basename == Basename(CurVar.name)
            IN  IF signal_type \in ZoneSignalTypes
                THEN /\ pc' = "alias"
                     /\ aliasVar' = basename \o <<DOT, "zone">>
                     /\ sigType' = signal_type
                     /\ depth' = 1
                     /\ UNCHANGED <<idx, signals, exc>>
                ELSE /\ signals' = AddSignal(signals, signal_type, basename)
                     /\ idx' = idx + 1
                     /\ UNCHANGED <<pc, aliasVar, sigType, depth, exc>>
    /\ UNCHANGED <<tree, instances, wrapper_code, stdout, outfile, jsonfile>>

\* Lines 159-165: one call of _get_final_value(tree, aliasVar).  A literal
\* returns through every frame to line 129, where _process_KPI goes on to its end.
GetFinalValue ==
    /\ pc = "alias"
    /\ LET n == FindNode(tree, aliasVar)
       IN  IF n = 0
           THEN Propagate("StopIteration") /\ UNCHANGED <<idx, signals, aliasVar, depth>>
           ELSE IF tree[n].bind = Absent
           THEN Propagate("AttributeError") /\ UNCHANGED <<idx, signals, aliasVar, depth>>
           ELSE IF Contains(tree[n].bind, <<QUOTE>>)
           THEN /\ signals' = AddSignal(signals,
                                 ZoneKey(sigType, QuotedPart(tree[n].bind)),
                                 Basename(CurVar.name))
                /\ idx' = idx + 1
                /\ pc' = "parse"
                /\ aliasVar' = <<>>
                /\ depth' = 0
                /\ UNCHANGED exc
           ELSE IF depth >= RecursionLimit
           THEN Propagate("RecursionError") /\ UNCHANGED <<idx, signals, aliasVar, depth>>
           ELSE /\ aliasVar' = tree[n].bind
                /\ depth' = depth + 1
                /\ UNCHANGED <<idx, signals, pc, exc>>
    /\ UNCHANGED <<tree, instances, sigType, wrapper_code, stdout, outfile, jsonfile>>

ModelPaths == { <<"Plant">>, None }

\* Lines 49 and 200: parse_XML returns and create_wrapper runs.
CreateWrapper ==
    /\ pc = "parse"
    /\ idx > Len(Variables(tree))
    /\ \E model \in ModelPaths : wrapper_code' = CreateWrapperResult(model, instances)
    /\ pc' = "write"
    /\ UNCHANGED <<tree, idx, instances, signals, aliasVar, sigType, depth,
                   stdout, outfile, jsonfile, exc>>

\* Lines 201-205, with or without --output.  open(..., 'w') leaves an empty
\* file; write() of None raises TypeError.
WriteOutput ==
    /\ pc = "write"
    /\ \E output \in BOOLEAN :
          IF ~output
          THEN /\ stdout' = wrapper_code \o <<"\n">>
               /\ pc' = "json"
               /\ UNCHANGED <<outfile, exc>>
          ELSE IF wrapper_code = None
          THEN /\ outfile' = <<>>
               /\ Propagate("TypeError")
               /\ UNCHANGED stdout
          ELSE /\ outfile' = wrapper_code
               /\ pc' = "json"
               /\ UNCHANGED <<stdout, exc>>
    /\ UNCHANGED <<tree, idx, instances, signals, aliasVar, sigType, depth,
                   wrapper_code, jsonfile>>

\* Lines 206-208, with or without --json.
WriteJson ==
    /\ pc = "json"
    /\ \E json \in BOOLEAN : jsonfile' = IF json THEN signals ELSE NotOpened
    /\ pc' = "done"
    /\ UNCHANGED <<tree, idx, instances, signals, aliasVar, sigType, depth,
                   wrapper_code, stdout, outfile, exc>>

Next ==
    \/ Skip
    \/ VisitReadwrite
    \/ VisitKPI
    \/ GetFinalValue
    \/ CreateWrapper
    \/ WriteOutput
    \/ WriteJson

Spec == Init /\ [][Next]_vars

\* The instance maps parse_XML can return: blocks with distinct basenames,
\* Overwrite records with float bounds, Read records with None bounds.
BlockNames == { <<"a">>, <<"s", DOT, "c">>, <<"b">> }

OverwriteRecords ==
    { [Unit |-> <<"K">>, Description |-> <<"d">>,
       Minimum |-> Float(1), Maximum |-> Float(20)],
      [Unit |-> <<>>, Description |-> <<>>,
       Minimum |-> Float(0), Maximum |-> Float(1)] }

ReadRecords ==
    { [Unit |-> <<"K">>, Description |-> <<"d">>, Minimum |-> None, Maximum |-> None],
      [Unit |-> <<"W">>, Description |-> <<>>, Minimum |-> None, Maximum |-> None] }

Dicts(keys, vals, n) ==
    { d \in Seqs([key : keys, val : vals], n) :
        \A j, k \in 1..Len(d) : d[j].key = d[k].key => j = k }

\* create_wrapper on its own: the state at line 200 for every pair of maps.
InitWrapper ==
    /\ tree = <<>>
    /\ pc = "parse"
    /\ idx = 1
    /\ instances \in [Overwrite : Dicts(BlockNames, OverwriteRecords, MaxEntries),
                       Read : Dicts(BlockNames, ReadRecords, MaxEntries)]
    /\ signals = <<>>
    /\ aliasVar = <<>>
    /\ sigType = <<>>
    /\ depth = 0
    /\ wrapper_code = Unset
    /\ stdout = <<>>
    /\ outfile = NotOpened
    /\ jsonfile = NotOpened
    /\ exc = NoExc

NextWrapper ==
    \/ CreateWrapper
    \/ WriteOutput
    \/ WriteJson

SpecWrapper == InitWrapper /\ [][NextWrapper]_vars

InitKPI ==
    /\ \E vs \in Seqs(KPIVars, MaxVars), za \in ZoneANodes, zb \in ZoneBNodes :
          tree = vs \o za \o zb
    /\ InitRun

SpecKPI == InitKPI /\ [][Next]_vars

(***************************************************************************)
(* Properties.                                                             *)
(***************************************************************************)
HasRead(name) == Contains(name, <<"boptestRead">>)
HasOverwrite(name) == Contains(name, <<"boptestOverwrite">>)
HasKPIs(name) == Contains(name, <<"KPIs">>)

\* C1: a step of parse_XML on a variable treats it by the first marker, in
\* the order boptestRead, boptestOverwrite, KPIs, that its name contains: a
\* Read name touches the Read map only, an Overwrite name the Overwrite map
\* only, a KPI name the signal groups only, any other name nothing; and the
\* loop passes each variable once.
C1_RoleByPrecedence ==
    [][AtVariable =>
        LET name == CurVar.name
            base == Basename(name)
            done == exc' = NoExc /\ pc' = "parse"
        IN  /\ idx' \in {idx, idx + 1}
            /\ done => idx' = idx + 1
            /\ HasRead(name) =>
                  /\ instances'["Overwrite"] = instances["Overwrite"]
                  /\ signals' = signals /\ pc' # "alias"
                  /\ exc' = NoExc => DictHas(instances'["Read"], base)
            /\ (~HasRead(name) /\ HasOverwrite(name)) =>
                  /\ instances'["Read"] = instances["Read"]
                  /\ signals' = signals /\ pc' # "alias"
                  /\ exc' = NoExc => DictHas(instances'["Overwrite"], base)
            /\ (~HasRead(name) /\ ~HasOverwrite(name) /\ HasKPIs(name)) =>
                  /\ instances' = instances
                  /\ exc' = NoExc => (pc' = "alias" \/ signals' # signals)
            /\ (~HasRead(name) /\ ~HasOverwrite(name) /\ ~HasKPIs(name)) =>
                  /\ instances' = instances /\ signals' = signals
                  /\ done
      ]_vars

\* C1 witness: the first variable holds the Overwrite and the Read marker,
\* and was entered in the Read map alone.
C1_Witness ==
    /\ idx = 2 /\ exc = NoExc
    /\ HasRead(tree[1].name) /\ HasOverwrite(tree[1].name)
    /\ DictHas(instances["Read"], Basename(tree[1].name))
    /\ instances["Overwrite"] = <<>>

\* The name being visited carries a Read or an Overwrite marker.
AtReadwrite == AtVariable /\ (HasRead(CurVar.name) \/ HasOverwrite(CurVar.name))

\* C3: when the step on a Read or Overwrite variable raises, both maps are
\* as before the step, nothing has been or is written, and the run stops
\* there: no step follows a raised exception.
C3_FailFastAtomic ==
    [][/\ pc # "raised"
       /\ (AtReadwrite /\ exc' # NoExc) =>
             /\ instances' = instances
             /\ pc' = "raised"
             /\ wrapper_code' = Unset /\ stdout' = <<>> /\ outfile' = NotOpened
      ]_vars

\* C3 witness: the second Read or Overwrite variable raised, after the first
\* had made its entry.
C3_Witness ==
    /\ pc = "raised" /\ idx = 2
    /\ HasRead(tree[2].name) \/ HasOverwrite(tree[2].name)
    /\ exc \in {"StopIteration", "IndexError", "ValueError"}
    /\ Len(instances["Read"]) + Len(instances["Overwrite"]) = 1

\* The text of s after its first double quote, up to the next one or to the
\* end of s.
AfterFirstQuote(s) ==
    LET i == CHOOSE k \in 1..Len(s) : s[k] = QUOTE /\ \A j \in 1..(k - 1) : s[j] # QUOTE
        rest == SubSeq(s, i + 1, Len(s))
    IN  IF \E k \in 1..Len(rest) : rest[k] = QUOTE
        THEN SubSeq(rest, 1, (CHOOSE k \in 1..Len(rest) :
                 rest[k] = QUOTE /\ \A j \in 1..(k - 1) : rest[j] # QUOTE) - 1)
        ELSE rest

HasQuote(s) == s # Absent /\ \E k \in 1..Len(s) : s[k] = QUOTE

\* The first node of this name, as a set of at most one node.
FirstNamed(name) ==
    { tree[k] : k \in { j \in 1..Len(tree) :
          tree[j].name = name /\ \A h \in 1..(j - 1) : tree[h].name # name } }

\* The entry e of the map label holds the unit of the signal node of its
\* block and the description of its description node.
EntryFromTree(label, e) ==
    /\ \E n \in FirstNamed(e.key \o <<DOT, IF label = "Read" THEN "y" ELSE "u">>) :
          HasQuote(n.unit) /\ e.val.Unit = AfterFirstQuote(n.unit)
    /\ \E d \in FirstNamed(e.key \o <<DOT, "description">>) :
          HasQuote(d.bind) /\ e.val.Description = AfterFirstQuote(d.bind)

Entries(label) == { instances[label][k] : k \in 1..Len(instances[label]) }

\* C4 as stated: every record of either map has a non-empty Unit and a
\* non-empty Description.
C4_NonEmptyUnitDescription ==
    \A label \in {"Overwrite", "Read"} : \A e \in Entries(label) :
        e.val.Unit # <<>> /\ e.val.Description # <<>>

\* C4 amended: every record of either map has a Unit and a Description that
\* are strings, never null: the text after the first double quote of the
\* unit of its signal node, and of the bindExpression of its description
\* node, up to the next double quote.  The text may be empty; a unit or
\* description without a double quote leaves no record.
C4_QuotedUnitDescription ==
    \A label \in {"Overwrite", "Read"} : \A e \in Entries(label) :
        /\ e.val.Unit \notin {None, Absent}
        /\ e.val.Description \notin {None, Absent}
        /\ EntryFromTree(label, e)

\* C4 witness: a record with an empty Unit has been entered.
C4_Witness ==
    \E e \in Entries("Read") : e.val.Unit = <<>> /\ e.val.Description = <<"d">>

\* C8: the records of the Overwrite map have both bounds set to floats, and
\* the records of the Read map have both bounds None.
C8_BoundsIffOverwrite ==
    /\ \A e \in Entries("Overwrite") :
          /\ e.val.Minimum # None /\ e.val.Minimum[1] = "float"
          /\ e.val.Maximum # None /\ e.val.Maximum[1] = "float"
    /\ \A e \in Entries("Read") : e.val.Minimum = None /\ e.val.Maximum = None

\* C8 witness: a Read and an Overwrite variable have both made their entry.
C8_Witness ==
    /\ \E e \in Entries("Overwrite") : e.val.Minimum = <<"float", "1">>
                                       /\ e.val.Maximum = <<"float", "20">>
    /\ Entries("Read") # {}

\* The map a name goes to, by its markers.
LabelOf(name) == IF HasRead(name) THEN "Read" ELSE "Overwrite"

\* C9: a Read or Overwrite variable whose basename is already a key of its
\* map raises nothing; the map keeps its keys, in their order, each once;
\* the entries of the other keys stay, and the entry of the basename is the
\* record of this variable.
C9_LastWriteWins ==
    [][(AtReadwrite /\ DictHas(instances[LabelOf(CurVar.name)], Basename(CurVar.name))) =>
        LET label == LabelOf(CurVar.name)
            base == Basename(CurVar.name)
            old == instances[label]
            new == instances'[label]
        IN  /\ exc' = NoExc
            /\ Len(new) = Len(old)
            /\ \A k \in 1..Len(old) :
                  /\ new[k].key = old[k].key
                  /\ old[k].key # base => new[k] = old[k]
                  /\ old[k].key = base => EntryFromTree(label, new[k])
            /\ Cardinality({ k \in 1..Len(new) : new[k].key = base }) = 1
      ]_vars

\* C9 witness: the first two variables are Read variables of one basename,
\* both were processed, and the Read map has one entry.
C9_Witness ==
    /\ idx = 3 /\ exc = NoExc
    /\ HasRead(tree[1].name) /\ HasRead(tree[2].name)
    /\ tree[1].name # tree[2].name
    /\ Basename(tree[1].name) = Basename(tree[2].name)
    /\ Len(instances["Read"]) = 1

\* C2 as stated: when both maps are empty create_wrapper returns None, and
\* the invocation then leaves the output file alone, with or without --output.
C2_NoWrapperNoWrite ==
    /\ (wrapper_code # Unset /\ Len(instances["Overwrite"]) + Len(instances["Read"]) = 0)
          => wrapper_code = None
    /\ wrapper_code = None => outfile = NotOpened

\* C5 as stated: the zone resolution makes no more calls than the tree has
\* nodes, and never runs into the recursion limit of the interpreter.
C5_BoundedHops == depth <= Len(tree) /\ exc # "RecursionError"

\* The text of s after its last dot (all of s when it has none).
AfterLastDot(s) ==
    LET dots == { k \in 1..Len(s) : s[k] = DOT }
    IN  IF dots = {} THEN s
        ELSE SubSeq(s, (CHOOSE k \in dots : \A j \in dots : j <= k) + 1, Len(s))

\* The text of s before its last dot (empty when it has none).
BeforeLastDot(s) ==
    LET dots == { k \in 1..Len(s) : s[k] = DOT }
    IN  IF dots = {} THEN <<>>
        ELSE SubSeq(s, 1, (CHOOSE k \in dots : \A j \in dots : j <= k) - 1)

\* The output identifier of a block: its dots made underscores, then _y.
OutputId(base) == [k \in 1..Len(base) |-> IF base[k] = DOT THEN "_" ELSE base[k]] \o <<"_y">>

\* The names reached from the names in S by following, n times, the
\* bindExpression of the first node of a name when it has no double quote.
RECURSIVE AliasClosure(_, _)
AliasClosure(S, n) ==
    IF n = 0 THEN S
    ELSE AliasClosure(
            S \cup { x.bind : x \in { y \in UNION { FirstNamed(nm) : nm \in S } :
                                         y.bind # Absent /\ ~HasQuote(y.bind) } },
            n - 1)

\* The zone literals at the end of the alias chain of the block.
ZonesOf(base) ==
    { AfterFirstQuote(x.bind) :
        x \in { y \in UNION { FirstNamed(nm) :
                     nm \in AliasClosure({base \o <<DOT, "zone">>}, Len(tree)) } :
                HasQuote(y.bind) } }

ZoneCategories ==
    { <<"AirZoneTemperature">>, <<"RadiativeZoneTemperature">>,
      <<"OperativeZoneTemperature">>, <<"RelativeHumidity">>, <<"CO2Concentration">> }

\* The group keys a KPI variable may be recorded under: Category[Zone] for
\* a zone category, Category otherwise.
KeysOf(v) ==
    LET cat == AfterLastDot(v.bind)
    IN  IF cat \in ZoneCategories
        THEN { cat \o <<"[">> \o z \o <<"]">> : z \in ZonesOf(BeforeLastDot(v.name)) }
        ELSE { cat }

GroupKeys(sig) == { sig[k].key : k \in 1..Len(sig) }

GroupList(sig, key) ==
    IF key \in GroupKeys(sig)
    THEN sig[CHOOSE k \in 1..Len(sig) : sig[k].key = key].val
    ELSE <<>>

\* The name being visited carries the KPIs marker and no other.
AtKPI == AtVariable /\ HasKPIs(CurVar.name)
                    /\ ~HasRead(CurVar.name) /\ ~HasOverwrite(CurVar.name)

\* C6: when a KPI variable has been processed, its output identifier is the
\* last of the list of the key Category[Zone], Zone being the literal at
\* the end of the alias chain of basename.zone, when Category is a zone
\* category, and of the key Category otherwise; no other list changes.  A
\* step that raises, or that only follows an alias, leaves the map as it is.
C6_GroupKey ==
    [][(AtKPI \/ pc = "alias") =>
         IF exc' = NoExc /\ pc' = "parse"
         THEN \E key \in KeysOf(CurVar) :
                /\ GroupKeys(signals') = GroupKeys(signals) \cup {key}
                /\ GroupList(signals', key)
                     = GroupList(signals, key) \o <<OutputId(BeforeLastDot(CurVar.name))>>
                /\ \A other \in GroupKeys(signals) \ {key} :
                     GroupList(signals', other) = GroupList(signals, other)
         ELSE signals' = signals
      ]_vars

\* C6 witness: the zone of a is an alias of the zone of b, a literal, and
\* the identifier of a is recorded under AirZoneTemperature[Z].
C6_Witness ==
    /\ \E n \in FirstNamed(<<"a", DOT, "zone">>) : n.bind = <<"b", DOT, "zone">>
    /\ GroupList(signals, <<"AirZoneTemperature", "[", "Z", "]">>) = << <<"a", "_y">> >>

\* The identifiers of the KPI variables among the first n, under key, in
\* the order of the tree.
RECURSIVE SeenUnder(_, _)
SeenUnder(key, n) ==
    IF n = 0 THEN <<>>
    ELSE LET v == Variables(tree)[n]
         IN  SeenUnder(key, n - 1) \o
               (IF HasKPIs(v.name) /\ ~HasRead(v.name) /\ ~HasOverwrite(v.name)
                   /\ v.bind # Absent /\ key \in KeysOf(v)
                THEN <<OutputId(BeforeLastDot(v.name))>> ELSE <<>>)

\* C10: every step leaves each list a prefix of what it becomes, adding at
\* most one identifier over all lists, and a new key starts with one
\* identifier; so each list is the identifiers of the KPI variables passed
\* so far under its key, in the order of the tree, repeated ones included.
C10_FirstSeenOrder ==
    [][/\ \A key \in GroupKeys(signals) :
            /\ key \in GroupKeys(signals')
            /\ Len(GroupList(signals', key)) >= Len(GroupList(signals, key))
            /\ SubSeq(GroupList(signals', key), 1, Len(GroupList(signals, key)))
                 = GroupList(signals, key)
       /\ \A key \in GroupKeys(signals') \ GroupKeys(signals) :
            Len(GroupList(signals', key)) = 1
       /\ \A key \in GroupKeys(signals') :
            GroupList(signals', key) = SeenUnder(key, idx' - 1)
      ]_vars

\* C10 witness: two KPI variables of different blocks under one key, the
\* earlier one first.
C10_Witness ==
    /\ \E key \in GroupKeys(signals) :
          GroupList(signals, key) = << <<"a", "_y">>, <<"b", "_y">> >>
    /\ \E key \in GroupKeys(signals) :
          GroupList(signals, key) = << <<"b", "_y">>, <<"b", "_y">> >>

\* The atoms of the wrapper text that open a declaration, a clause or a
\* statement.
MarkModel == "model "
MarkRealInput == "\tModelica.Blocks.Interfaces.RealInput "
MarkBooleanInput == "\tModelica.Blocks.Interfaces.BooleanInput "
MarkRealOutput == "\tModelica.Blocks.Interfaces.RealOutput "
MarkMod == " mod(\n"
MarkClause == "(uExt(y="
MarkComma == ",\n"
MarkWith == "Original model with overwrites"
MarkWithout == "Original model without overwrites"
MarkEnd == "end "

Marks == { MarkModel, MarkRealInput, MarkBooleanInput, MarkRealOutput, MarkMod, MarkClause,
           MarkComma, MarkWith, MarkWithout, MarkEnd }

\* The marks of a text, in their order.
MarksOf(text) == SelectSeq(text, LAMBDA a : a \in Marks)

\* The pieces of text that follow an atom open, each up to the next atom close.
RECURSIVE Between(_, _, _)
Between(text, open, close) ==
    IF \A k \in 1..Len(text) : text[k] # open THEN <<>>
    ELSE LET i == CHOOSE k \in 1..Len(text) :
                     text[k] = open /\ \A j \in 1..(k - 1) : text[j] # open
             rest == SubSeq(text, i + 1, Len(text))
             j == CHOOSE k \in 1..Len(rest) :
                     rest[k] = close /\ \A h \in 1..(k - 1) : rest[h] # close
         IN  <<SubSeq(rest, 1, j - 1)>> \o Between(SubSeq(rest, j + 1, Len(rest)), open, close)

\* seq repeated n times.
RECURSIVE Times(_, _)
Times(seq, n) == IF n = 0 THEN <<>> ELSE seq \o Times(seq, n - 1)

Underscored(key) == [k \in 1..Len(key) |-> IF key[k] = DOT THEN "_" ELSE key[k]]

\* C7: for n Overwrite and m Read entries, n + m > 0, the text is: the
\* header; an input-signal then an input-activation declaration for each
\* Overwrite entry in map order; m + n output declarations bound to
\* mod.<basename>.y, the Read entries before the Overwrite entries; the
\* instantiation mod with n clauses in Overwrite order, commas between them,
\* closed by the one comment "with overwrites" if n > 0 and "without
\* overwrites" if n = 0; and the end statement.
C7_EmissionOrder ==
    LET ow == [k \in 1..Len(instances["Overwrite"]) |-> instances["Overwrite"][k].key]
        rd == [k \in 1..Len(instances["Read"]) |-> instances["Read"][k].key]
        n == Len(ow)
        m == Len(rd)
    IN  (wrapper_code # Unset /\ n + m > 0) =>
          /\ wrapper_code # None
          /\ MarksOf(wrapper_code) =
                <<MarkModel>> \o Times(<<MarkRealInput, MarkBooleanInput>>, n)
                  \o Times(<<MarkRealOutput>>, m + n) \o <<MarkMod>>
                  \o (IF n = 0 THEN <<MarkWithout>>
                      ELSE <<MarkClause>> \o Times(<<MarkComma, MarkClause>>, n - 1) \o <<MarkWith>>)
                  \o <<MarkEnd>>
          /\ Between(wrapper_code, MarkRealInput, "_u") = [k \in 1..n |-> Underscored(ow[k])]
          /\ Between(wrapper_code, MarkBooleanInput, "_activate")
                = [k \in 1..n |-> Underscored(ow[k])]
          /\ Between(wrapper_code, " = mod.", ".y ") = rd \o ow
          /\ Between(wrapper_code, "\t\t", MarkClause) = ow

\* C7 witness: a text made from two Overwrite entries and one Read entry.
C7_Witness ==
    /\ wrapper_code \notin {Unset, None}
    /\ Len(instances["Overwrite"]) = 2
    /\ Len(instances["Read"]) = 1

====
